---- MODULE Spec2Model ----
(***************************************************************************)
(* Coperex REST backend: the validation-and-authorization pipeline, the    *)
(* user and company controllers and the default-administrator bootstrap,   *)
(* over a document store of user and company records.                     *)
(*                                                                         *)
(* The store is an external database: it outlives the process, so the      *)
(* state at process start is any store that satisfies the unique indexes.  *)
(* A request is one action: its middleware chain runs in declaration       *)
(* order and, when no guard or aggregator has responded, its controller    *)
(* runs.  The list controllers issue two queries (count and find) that     *)
(* the store serves at separate instants; SpecList models them as          *)
(* separate steps with other requests in between.                          *)
(***************************************************************************)
EXTENDS Integers, FiniteSets, Sequences, TLC

VARIABLES users, companies, booted, last, list, inflight, server

vars == <<users, companies, booted, last, list, inflight, server>>

-----------------------------------------------------------------------------
(* Bounds of the model *)

MaxUsers == 1
MaxCompanies == 1

\* the users of the store SpecCompany and SpecUsers start on
MaxSeedUsers == 2

\* the requests in flight at once in SpecRace
MaxInflight == 2

\* the companies of a store that is listed page by page
MaxListed == 3

-----------------------------------------------------------------------------
(* Values *)

\* a request without a (valid) bearer token
NoToken == 0

\* a path parameter that is not a MongoDB ObjectId
BadId == 0

Roles == {"ADMIN", "CLIENT"}

\* the username and email of the i-th record of a store the process starts on
SeedNames == << "u1", "u2", "u3", "u4" >>

SeedEmails == << "e1", "e2", "e3", "e4" >>

Usernames == {SeedNames[i] : i \in DOMAIN SeedNames} \cup {"admin123"}

Emails == {SeedEmails[i] : i \in DOMAIN SeedEmails} \cup {"admin123@example.com"}

Categories == {"tech", "salud"}

\* the name of the i-th record of a company store the process starts on
SeedCompanyNames == << "Acme", "Beta", "Coop", "Dyn" >>

\* the names a request can carry
CompanyNames == {"Acme", "Beta"}

UserIds == 1..MaxUsers

\* ids a request can name: the ids of the model, one ObjectId beyond them, and BadId
UidParams == 0..(MaxUsers + 1)

CidParams == 0..(MaxCompanies + 1)

Years == {0, 1}

\* the unique indexes of the User collection (username, email)
UniqueUsers(us) ==
    \A i, j \in DOMAIN us :
        i # j => us[i].username # us[j].username /\ us[i].email # us[j].email

\* the password of the default administrator, which passes isStrongPassword
StrongPassword == "SecureP@ssword123"

\* a password that fails isStrongPassword
WeakPassword == "weak"

\* the passwords a request body can carry
Plaintexts == {StrongPassword, WeakPassword}

\* argon2 hash: an encoded string that is no plaintext
hash(p) == "$argon2id$" \o p

\* the stores a process can start on: ids 1..n, unique usernames and emails
InitialUserStores ==
    UNION { { [i \in 1..n |-> [username |-> SeedNames[i], email |-> SeedEmails[i],
                               role |-> f[i].role, status |-> f[i].status,
                               password |-> hash(StrongPassword)]] :
              f \in [1..n -> [role : Roles, status : BOOLEAN]] } : n \in 0..MaxUsers }

\* the unique index of the Company collection (name)
UniqueCompanies(cs) ==
    \A i, j \in DOMAIN cs : i # j => cs[i].name # cs[j].name

\* a patch is a partial record; Patch applies it as findByIdAndUpdate's $set
Patch(rec, data) ==
    [f \in DOMAIN rec |-> IF f \in DOMAIN data THEN data[f] ELSE rec[f]]

\* the id the store gives the next inserted document
NewId(store, ids) == CHOOSE i \in ids : i \notin DOMAIN store /\ \A j \in ids : j \notin DOMAIN store => i <= j

Insert(store, id, rec) ==
    [i \in DOMAIN store \cup {id} |-> IF i = id THEN rec ELSE store[i]]


-----------------------------------------------------------------------------
(* Middleware chains, in declaration order *)

registerValidator ==
    << "esAdmin", "name.notEmpty", "username.notEmpty", "email.emailExists",
       "username.usernameExists", "password.isStrongPassword", "role.isIn",
       "validarCampos", "handleErrors" >>

getUserByIdValidator ==
    << "validateJWT", "hasRoles", "uid.isMongoId", "uid.userExists",
       "validarCampos", "handleErrors" >>

deleteUserValidator ==
    << "validateJWT", "hasRoles", "usuario.validateUserNotDeleted",
       "validarCampos", "handleErrors" >>

adminUpdateUserValidator ==
    << "validateJWT", "hasRoles", "uid.isMongoId", "uid.userExists",
       "validarCampos", "handleErrors" >>

updateUserValidator ==
    << "validateJWT", "hasRoles", "validateUpdateRole", "validarCampos",
       "handleErrors" >>

\* a createCompanyValidator that declares the rules but not the aggregator
createCompanyValidatorNoAggregator ==
    << "name.notEmpty", "levelImpact.isIn", "yearsTrajectory.isInt",
       "category.notEmpty", "handleErrors" >>

createCompanyValidator ==
    << "name.notEmpty", "levelImpact.isIn", "yearsTrajectory.isInt",
       "category.notEmpty", "validarCampos", "handleErrors" >>

\* src/middlewares/company-validators.js: the id rules and the optional body rules
updateCompanyValidator ==
    << "id.isMongoId", "id.companyExists", "levelImpact.optional.isIn",
       "yearsTrajectory.optional.isInt", "validarCampos", "handleErrors" >>

\* the other company-validators.js: the id rules only
updateCompanyValidatorIdOnly ==
    << "id.isMongoId", "id.companyExists", "validarCampos", "handleErrors" >>

\* a getCompanyByIdValidator without the companyExists rule
getCompanyByIdValidatorShapeOnly ==
    << "id.isMongoId", "validarCampos", "handleErrors" >>

getCompanyByIdValidator ==
    << "id.isMongoId", "id.companyExists", "validarCampos", "handleErrors" >>

\* a company router that mounts the role guard without the authentication guard
companyRouteGuardsNoJWT == << "hasRoles" >>

\* company.routes.js prefixes every chain with the two guards
companyRouteGuards == << "validateJWT", "hasRoles" >>

\* chains of routes whose route file is not part of the sources
listUsersGuards == << "validateJWT", "hasRoles" >>

deleteCompanyValidator ==
    << "id.isMongoId", "id.companyExists", "validarCampos", "handleErrors" >>

Routes ==
    { "register", "getUserById", "getUsers", "deleteUser", "adminUpdateUser",
      "selfUpdateUser", "createCompany", "createCompanyFoundingYear", "getCompanies",
      "getCompaniesSimple", "getCompanyById", "updateCompany", "updateCompanyIdOnly", "deleteCompany",
      "report" }

Chain(route) ==
    CASE route = "register" -> registerValidator
      [] route = "getUserById" -> getUserByIdValidator
      [] route = "getUsers" -> listUsersGuards
      [] route = "deleteUser" -> deleteUserValidator
      [] route = "adminUpdateUser" -> adminUpdateUserValidator
      [] route = "selfUpdateUser" -> updateUserValidator
      [] route = "createCompany" -> companyRouteGuards \o createCompanyValidator
      [] route = "createCompanyFoundingYear" -> companyRouteGuards \o createCompanyValidator
      [] route = "getCompanies" -> companyRouteGuards
      [] route = "getCompaniesSimple" -> companyRouteGuards
      [] route = "getCompanyById" -> companyRouteGuards \o getCompanyByIdValidator
      [] route = "updateCompany" -> companyRouteGuards \o updateCompanyValidator
      [] route = "updateCompanyIdOnly" -> companyRouteGuards \o updateCompanyValidatorIdOnly
      [] route = "deleteCompany" -> companyRouteGuards \o deleteCompanyValidator
      [] route = "report" -> companyRouteGuards

IsRoleCheck(m) == m \in {"hasRoles", "esAdmin"}

-----------------------------------------------------------------------------
(* Guards, field rules and the error aggregator *)

LevelImpacts == {"Bajo", "Medio", "Alto"}

IsEmail(e) == e \in Emails

\* User.findOne({email}) / User.findOne({username}): any record, active or not
emailExists(email) == \E i \in DOMAIN users : users[i].email = email

usernameExists(username) == \E i \in DOMAIN users : users[i].username = username

\* findById throws a CastError on a value that is no ObjectId, so the rule fails
userExists(uid) == uid = BadId \/ uid \notin DOMAIN users

\* a companyExists that never rejects
companyExistsSkipped(id) == FALSE

companyExists(id) == id = BadId \/ id \notin DOMAIN companies

\* a validateUserNotDeleted that reads the status, as its name says
validateUserNotDeletedReadsStatus(ctx) ==
    ctx.usuario \notin DOMAIN users \/ ~users[ctx.usuario].status

validateUserNotDeleted(ctx) == ctx.usuario \notin DOMAIN users

\* TRUE when the rule records an error for the request
RuleFails(m, req, ctx) ==
    CASE m = "uid.isMongoId" -> req.id = BadId
      [] m = "uid.userExists" -> userExists(req.id)
      [] m = "usuario.validateUserNotDeleted" -> validateUserNotDeleted(ctx)
      [] m = "id.isMongoId" -> req.id = BadId
      [] m = "id.companyExists" -> companyExists(req.id)
      [] m = "name.notEmpty" -> req.body.name = ""
      [] m = "username.notEmpty" -> req.body.username = ""
      [] m = "email.emailExists" ->
            req.body.email = "" \/ ~IsEmail(req.body.email) \/ emailExists(req.body.email)
      [] m = "username.usernameExists" -> usernameExists(req.body.username)
      [] m = "password.isStrongPassword" -> ~req.body.strong
      [] m = "role.isIn" -> req.body.role # "ADMIN"
      [] m = "levelImpact.isIn" -> req.body.levelImpact \notin LevelImpacts
      [] m = "yearsTrajectory.isInt" -> req.body.yearsTrajectory < 0
      [] m = "category.notEmpty" -> req.body.category = ""
      [] m = "levelImpact.optional.isIn" ->
            "levelImpact" \in DOMAIN req.body /\ req.body.levelImpact \notin LevelImpacts
      [] m = "yearsTrajectory.optional.isInt" ->
            "yearsTrajectory" \in DOMAIN req.body /\ req.body.yearsTrajectory < 0

\* the request context before the first middleware: no identity attached
\* (usuario is what validateJWT attaches, user is what esAdmin reads)
NewCtx == [usuario |-> NoToken, user |-> NoToken, errors |-> {}, status |-> 0, ran |-> <<>>]

validateJWT(req, ctx) ==
    IF req.token \in DOMAIN users
    THEN [ctx EXCEPT !.usuario = req.token]
    ELSE [ctx EXCEPT !.status = 401]

hasRoles(req, ctx) ==
    IF ctx.usuario \in DOMAIN users /\ users[ctx.usuario].role = "ADMIN"
    THEN ctx
    ELSE [ctx EXCEPT !.status = 403]

esAdmin(req, ctx) ==
    IF ctx.user \notin DOMAIN users \/ users[ctx.user].role # "ADMIN"
    THEN [ctx EXCEPT !.status = 403]
    ELSE ctx

validateUpdateRole(req, ctx) ==
    IF req.roleOk THEN ctx ELSE [ctx EXCEPT !.status = 400]

validarCampos(req, ctx) ==
    IF ctx.errors # {} THEN [ctx EXCEPT !.status = 400] ELSE ctx

handleErrors(req, ctx) == ctx

Middleware(m, req, ctx0) ==
    LET ctx == [ctx0 EXCEPT !.ran = Append(@, m)] IN
    CASE m = "validateJWT" -> validateJWT(req, ctx)
      [] m = "hasRoles" -> hasRoles(req, ctx)
      [] m = "esAdmin" -> esAdmin(req, ctx)
      [] m = "validateUpdateRole" -> validateUpdateRole(req, ctx)
      [] m = "validarCampos" -> validarCampos(req, ctx)
      [] m = "handleErrors" -> handleErrors(req, ctx)
      [] OTHER -> IF RuleFails(m, req, ctx)
                  THEN [ctx EXCEPT !.errors = @ \cup {m}]
                  ELSE ctx

\* a chain whose middlewares call next() also after they have responded
RECURSIVE RunFromAlwaysNext(_, _, _, _)
RunFromAlwaysNext(chain, i, req, ctx) ==
    IF i > Len(chain)
    THEN ctx
    ELSE RunFromAlwaysNext(chain, i + 1, req, Middleware(chain[i], req, ctx))

\* next(): each middleware runs only if none before it has responded
RECURSIVE RunFrom(_, _, _, _)
RunFrom(chain, i, req, ctx) ==
    IF i > Len(chain) \/ ctx.status # 0
    THEN ctx
    ELSE RunFrom(chain, i + 1, req, Middleware(chain[i], req, ctx))

RunChain(route, req) == RunFrom(Chain(route), 1, req, NewCtx)

-----------------------------------------------------------------------------
(* Controllers: each returns the response status and the store it leaves *)

Result(status, us, cs) == [status |-> status, users |-> us, companies |-> cs]

\* user.controller.js
getUserById(req) ==
    IF req.id = BadId THEN Result(500, users, companies)
    ELSE IF req.id \notin DOMAIN users THEN Result(404, users, companies)
    ELSE Result(200, users, companies)

\* a deleteUser whose update has no _id filter: every record is set inactive
deleteUserEveryRecord(req, ctx) ==
    IF ctx.usuario = NoToken THEN Result(400, users, companies)
    ELSE IF ctx.usuario \notin DOMAIN users THEN Result(404, users, companies)
    ELSE Result(200,
                [i \in DOMAIN users |-> Patch(users[i], [status |-> FALSE])],
                companies)

deleteUser(req, ctx) ==
    IF ctx.usuario = NoToken THEN Result(400, users, companies)
    ELSE IF ctx.usuario \notin DOMAIN users THEN Result(404, users, companies)
    ELSE Result(200,
                [users EXCEPT ![ctx.usuario] = Patch(@, [status |-> FALSE])],
                companies)

\* an updateUser on a store without the unique indexes
updateUserNoIndex(uid, data) ==
    IF uid = BadId THEN Result(500, users, companies)
    ELSE IF uid \notin DOMAIN users THEN Result(404, users, companies)
    ELSE Result(200, [users EXCEPT ![uid] = Patch(@, data)], companies)

\* findByIdAndUpdate(uid, data, {new: true}): no schema validators run; the
\* store's unique indexes reject a duplicate username or email
updateUser(uid, data) ==
    IF uid = BadId THEN Result(500, users, companies)
    ELSE IF uid \notin DOMAIN users THEN Result(404, users, companies)
    ELSE LET us == [users EXCEPT ![uid] = Patch(@, data)] IN
         IF UniqueUsers(us)
         THEN Result(200, us, companies)
         ELSE Result(500, users, companies)

\* auth.controller.js register: hash the password, User.create, 201
register(req) ==
    LET rec == [username |-> req.body.username, email |-> req.body.email,
                role |-> req.body.role, status |-> TRUE,
                password |-> hash(IF req.body.strong THEN StrongPassword
                                  ELSE WeakPassword)]
        us == Insert(users, NewId(users, 1..(MaxUsers + 1)), rec)
    IN IF UniqueUsers(us)
       THEN Result(201, us, companies)
       ELSE Result(500, users, companies)

\* a schema whose yearsTrajectory has no minimum
SchemaRejectsNoMin(data) ==
    \/ "name" \in DOMAIN data /\ data.name = ""
    \/ "levelImpact" \in DOMAIN data /\ data.levelImpact \notin LevelImpacts
    \/ "category" \in DOMAIN data /\ data.category = ""

\* company.model.js: the schema validators run by save() and by runValidators
SchemaRejects(data) ==
    \/ "name" \in DOMAIN data /\ data.name = ""
    \/ "levelImpact" \in DOMAIN data /\ data.levelImpact \notin LevelImpacts
    \/ "yearsTrajectory" \in DOMAIN data /\ data.yearsTrajectory < 0
    \/ "category" \in DOMAIN data /\ data.category = ""

\* a createCompany without the catch: a rejected save answers nothing
createCompanyUncaught(req, ctx) ==
    LET rec == [name |-> req.body.name, levelImpact |-> req.body.levelImpact,
                yearsTrajectory |-> req.body.yearsTrajectory,
                category |-> req.body.category, createdBy |-> ctx.usuario,
                status |-> TRUE]
        cs == Insert(companies, NewId(companies, 1..(MaxCompanies + 1)), rec)
    IN IF SchemaRejects(rec) \/ ctx.usuario = NoToken \/ ~UniqueCompanies(cs)
       THEN Result(0, users, companies)
       ELSE Result(201, users, cs)

\* a createCompany that takes the owner from the first administrator, not from
\* req.usuario
createCompanyFirstOwner(req, ctx) ==
    LET rec == [name |-> req.body.name, levelImpact |-> req.body.levelImpact,
                yearsTrajectory |-> req.body.yearsTrajectory,
                category |-> req.body.category, createdBy |-> 1,
                status |-> TRUE]
        cs == Insert(companies, NewId(companies, 1..(MaxCompanies + 1)), rec)
    IN IF SchemaRejects(rec) \/ ctx.usuario = NoToken \/ ~UniqueCompanies(cs)
       THEN Result(500, users, companies)
       ELSE Result(201, users, cs)

\* company.controller.js
createCompany(req, ctx) ==
    LET rec == [name |-> req.body.name, levelImpact |-> req.body.levelImpact,
                yearsTrajectory |-> req.body.yearsTrajectory,
                category |-> req.body.category, createdBy |-> ctx.usuario,
                status |-> TRUE]
        cs == Insert(companies, NewId(companies, 1..(MaxCompanies + 1)), rec)
    IN IF SchemaRejects(rec) \/ ctx.usuario = NoToken \/ ~UniqueCompanies(cs)
       THEN Result(500, users, companies)
       ELSE Result(201, users, cs)

\* new Date().getFullYear()
CurrentYear == 2023

\* a founding-year createCompany that stores the supplied value as it is
createCompanyFoundingYearVerbatim(req, ctx) == createCompany(req, ctx)

\* the createCompany that stores currentYear - parseInt(yearsTrajectory, 10); the
\* validator chain has admitted an integer, which parseInt reads as it is
createCompanyFoundingYear(req, ctx) ==
    LET foundingYear == req.body.yearsTrajectory
        computedYearsTrajectory == CurrentYear - foundingYear
        rec == [name |-> req.body.name, levelImpact |-> req.body.levelImpact,
                yearsTrajectory |-> computedYearsTrajectory,
                category |-> req.body.category, createdBy |-> ctx.usuario,
                status |-> TRUE]
        cs == Insert(companies, NewId(companies, 1..(MaxCompanies + 1)), rec)
    IN IF SchemaRejects(rec) \/ ctx.usuario = NoToken \/ ~UniqueCompanies(cs)
       THEN Result(500, users, companies)
       ELSE Result(201, users, cs)

getCompanyById(req) ==
    IF req.id = BadId THEN Result(500, users, companies)
    ELSE IF req.id \notin DOMAIN companies THEN Result(404, users, companies)
    ELSE Result(200, users, companies)

updateCompany(req, runValidators) ==
    IF req.id = BadId THEN Result(500, users, companies)
    ELSE IF runValidators /\ SchemaRejects(req.body) THEN Result(500, users, companies)
    ELSE IF req.id \notin DOMAIN companies THEN Result(404, users, companies)
    ELSE LET cs == [companies EXCEPT ![req.id] = Patch(@, req.body)] IN
         IF UniqueCompanies(cs)
         THEN Result(200, users, cs)
         ELSE Result(500, users, companies)

\* a deleteCompany that removes the document instead of flipping its status
deleteCompanyRemoving(req) ==
    IF req.id = BadId THEN Result(500, users, companies)
    ELSE IF req.id \notin DOMAIN companies THEN Result(404, users, companies)
    ELSE Result(200, users, [i \in DOMAIN companies \ {req.id} |-> companies[i]])

deleteCompany(req) ==
    IF req.id = BadId THEN Result(500, users, companies)
    ELSE IF req.id \notin DOMAIN companies THEN Result(404, users, companies)
    ELSE Result(200, users,
                [companies EXCEPT ![req.id] = Patch(@, [status |-> FALSE])])

-----------------------------------------------------------------------------
(* List queries *)

\* a query parameter the request does not carry
Absent == -1

DefaultLimitCompanies == 10

DefaultLimitCompaniesSimple == 5

DefaultLimitUsers == 5

NameRank(n) == CASE n = "Acme" -> 1 [] n = "Beta" -> 2 [] n = "Coop" -> 3 [] OTHER -> 4

\* the filters of a query string: none, or one of minYears, maxYears, category
Filters ==
    { [minYears |-> Absent, maxYears |-> Absent, category |-> ""],
      [minYears |-> 1, maxYears |-> Absent, category |-> ""],
      [minYears |-> Absent, maxYears |-> 0, category |-> ""],
      [minYears |-> Absent, maxYears |-> Absent, category |-> "salud"] }

NoFilter == [minYears |-> Absent, maxYears |-> Absent, category |-> ""]

\* order, limite and desde of a query string
Pagings ==
    { [order |-> "asc", limite |-> Absent, desde |-> Absent],
      [order |-> "desc", limite |-> 1, desde |-> Absent],
      [order |-> "asc", limite |-> 0, desde |-> 1] }

\* a getCompanies whose query starts from {} instead of {status: true}
CompanyMatchesAnyStatus(c, q) ==
    /\ (q.minYears # Absent \/ q.maxYears # Absent) =>
          /\ q.minYears # Absent => c.yearsTrajectory >= q.minYears
          /\ q.maxYears # Absent => c.yearsTrajectory <= q.maxYears
    /\ q.category # "" => c.category = q.category

\* the filter getCompanies builds from the query string
CompanyMatches(c, q) ==
    /\ c.status = TRUE
    /\ (q.minYears # Absent \/ q.maxYears # Absent) =>
          /\ q.minYears # Absent => c.yearsTrajectory >= q.minYears
          /\ q.maxYears # Absent => c.yearsTrajectory <= q.maxYears
    /\ q.category # "" => c.category = q.category

\* {status: true}
ActiveOnly(r) == r.status = TRUE

\* the ids a list request selects
Selected(kind, q) ==
    CASE kind = "getCompanies" -> {i \in DOMAIN companies : CompanyMatches(companies[i], q)}
      [] kind = "getCompaniesSimple" -> {i \in DOMAIN companies : ActiveOnly(companies[i])}
      [] kind = "getUsers" -> {i \in DOMAIN users : ActiveOnly(users[i])}

\* countDocuments(query)
CountDocuments(kind, q) == Cardinality(Selected(kind, q))

\* ids in natural (insertion) order
RECURSIVE Natural(_)
Natural(S) ==
    IF S = {} THEN <<>>
    ELSE LET m == CHOOSE i \in S : \A j \in S : i <= j IN <<m>> \o Natural(S \ {m})

\* sort({name: 1}) or sort({name: -1}); equal names keep their natural order
RECURSIVE SortByName(_, _)
SortByName(S, desc) ==
    IF S = {} THEN <<>>
    ELSE LET Before(i, j) ==
                 LET ri == NameRank(companies[i].name)
                     rj == NameRank(companies[j].name)
                 IN IF ri # rj THEN (IF desc THEN ri > rj ELSE ri < rj) ELSE i <= j
             m == CHOOSE i \in S : \A j \in S : Before(i, j)
         IN <<m>> \o SortByName(S \ {m}, desc)

\* skip(Number(desde)).limit(Number(limite)); limit(0) is no limit
SkipLimit(seq, desde, limite) ==
    LET rest == SubSeq(seq, desde + 1, Len(seq)) IN
    IF limite = 0 \/ limite >= Len(rest) THEN rest ELSE SubSeq(rest, 1, limite)

DefaultLimit(kind) ==
    CASE kind = "getCompanies" -> DefaultLimitCompanies
      [] kind = "getCompaniesSimple" -> DefaultLimitCompaniesSimple
      [] kind = "getUsers" -> DefaultLimitUsers

\* find(query).sort().skip().limit()
Find(kind, q, pg) ==
    LET ordered == IF kind = "getCompanies"
                   THEN SortByName(Selected(kind, q), pg.order = "desc")
                   ELSE Natural(Selected(kind, q))
        desde == IF pg.desde = Absent THEN 0 ELSE pg.desde
        limite == IF pg.limite = Absent THEN DefaultLimit(kind) ELSE pg.limite
    IN SkipLimit(ordered, desde, limite)

\* generateCompaniesReport: find({status: true}), 404 when empty
generateCompaniesReport ==
    IF Natural(Selected("getCompaniesSimple", NoFilter)) = <<>>
    THEN Result(404, users, companies)
    ELSE Result(200, users, companies)

-----------------------------------------------------------------------------
(* Bootstrap *)

\* the names user-validators.js imports (lines 1-8)
UserValidatorsImports ==
    { "body", "param", "emailExists", "usernameExists", "userExists",
      "validateUserNotDeleted", "esAdmin", "validarCampos", "handleErrors",
      "hasRoles", "validateUpdateRole", "validateJWT", "check", "existeAdmin" }

\* createDefaultAdmin: a name the module does not bind throws a ReferenceError
\* inside the try block; the catch logs it and the function returns
createDefaultAdmin ==
    IF "User" \notin UserValidatorsImports THEN users
    ELSE IF \E i \in DOMAIN users : users[i].role = "ADMIN" THEN users
    ELSE IF "hash" \notin UserValidatorsImports THEN users
    ELSE LET us == Insert(users, NewId(users, 1..(MaxUsers + 1)),
                          [username |-> "admin123", email |-> "admin123@example.com",
                           role |-> "ADMIN", status |-> TRUE,
                           password |-> hash(StrongPassword)])
         IN IF UniqueUsers(us) THEN us ELSE users

-----------------------------------------------------------------------------
(* Requests *)

EmptyStore == [i \in {} |-> i]

Tokens == {NoToken} \cup DOMAIN users

AdminTokens == {i \in DOMAIN users : users[i].role = "ADMIN"}

\* what the request's token stands for, read off the store before the request
AuthClass(token) ==
    IF token \notin DOMAIN users THEN "none"
    ELSE IF users[token].role = "ADMIN" THEN "admin"
    ELSE "nonadmin"

ListIdle ==
    [pc |-> "idle", kind |-> "", q |-> NoFilter, counted |-> FALSE, found |-> FALSE,
     total |-> Absent, page |-> <<>>, dirty |-> FALSE]

NoRequest ==
    [route |-> "", status |-> 0, ctrl |-> FALSE, changed |-> FALSE, failed |-> FALSE,
     ran |-> <<>>,
     auth |-> "none", tags |-> {}, target |-> 0, q |-> NoFilter, total |-> Absent,
     page |-> <<>>]

StoreChanged(res) == res.users # users \/ res.companies # companies

\* a write is modelled when it adds no record or the store stays within its bound
Fits(new, old, max) ==
    IF DOMAIN new = DOMAIN old THEN TRUE ELSE Cardinality(DOMAIN new) <= max

\* the response of a request and the store it leaves (failed: a field rule of the
\* chain recorded an error); a write that lands after
\* a pending list request's count query marks that request dirty
Respond(route, token, ctx, res, ctrl, tags, target, q, total, page) ==
    /\ Fits(res.users, users, MaxUsers)
    /\ Fits(res.companies, companies, MaxCompanies)
    /\ users' = res.users
    /\ companies' = res.companies
    /\ last' = [NoRequest EXCEPT
                  !.route = route, !.status = res.status, !.ctrl = ctrl,
                  !.changed = StoreChanged(res), !.failed = (ctx.errors # {}),
                  !.ran = ctx.ran,
                  !.auth = AuthClass(token), !.tags = tags, !.target = target,
                  !.q = q, !.total = total, !.page = page]
    /\ list' = IF list.pc = "pending" /\ list.counted /\ StoreChanged(res)
               THEN [list EXCEPT !.dirty = TRUE]
               ELSE list
    /\ UNCHANGED <<booted, inflight, server>>

Controller(route, req, ctx) ==
    CASE route = "register" -> register(req)
      [] route = "getUserById" -> getUserById(req)
      [] route = "deleteUser" -> deleteUser(req, ctx)
      [] route = "adminUpdateUser" -> updateUser(req.id, req.body)
      [] route = "selfUpdateUser" -> updateUser(req.id, req.body)
      [] route = "createCompany" -> createCompany(req, ctx)
      [] route = "createCompanyFoundingYear" -> createCompanyFoundingYear(req, ctx)
      [] route = "getCompanyById" -> getCompanyById(req)
      [] route = "updateCompany" -> updateCompany(req, req.rv)
      [] route = "updateCompanyIdOnly" -> updateCompany(req, req.rv)
      [] route = "deleteCompany" -> deleteCompany(req)
      [] route = "report" -> generateCompaniesReport

\* route -> chain -> controller
Handle(route, req, tags, target) ==
    LET ctx == RunChain(route, req) IN
    IF ctx.status # 0
    THEN Respond(route, req.token, ctx, Result(ctx.status, users, companies), FALSE,
                 tags, target, NoFilter, Absent, <<>>)
    ELSE Respond(route, req.token, ctx, Controller(route, req, ctx), TRUE, tags, target,
                 NoFilter, Absent, <<>>)

\* the guards that open a chain answer from the token alone
IsGuard(m) == m \in {"validateJWT", "hasRoles", "esAdmin"}

RECURSIVE GuardPrefix(_, _)
GuardPrefix(chain, i) ==
    IF i > Len(chain) \/ ~IsGuard(chain[i]) THEN <<>>
    ELSE <<chain[i]>> \o GuardPrefix(chain, i + 1)

RunGuards(route, token) ==
    RunFrom(GuardPrefix(Chain(route), 1), 1, [token |-> token], NewCtx)

GuardsPass(route, token) == RunGuards(route, token).status = 0

\* a request the opening guards answer: its parameters and body are never read
Rejected(route, token) ==
    LET ctx == RunGuards(route, token) IN
    /\ ctx.status # 0
    /\ Respond(route, token, ctx, Result(ctx.status, users, companies), FALSE, {}, 0,
               NoFilter, Absent, <<>>)

\* name, password strength and role of a register body: all valid, or one not
RegisterRest ==
    { [name |-> "n", strong |-> TRUE, role |-> "ADMIN"],
      [name |-> "", strong |-> TRUE, role |-> "ADMIN"],
      [name |-> "n", strong |-> FALSE, role |-> "ADMIN"],
      [name |-> "n", strong |-> TRUE, role |-> "CLIENT"] }

RegisterTags(req) ==
    (IF emailExists(req.body.email) \/ usernameExists(req.body.username)
     THEN {"dup"} ELSE {})
    \cup
    (IF /\ req.token = NoToken
        /\ req.body.name # "" /\ req.body.username # "" /\ IsEmail(req.body.email)
        /\ req.body.strong /\ req.body.role = "ADMIN"
        /\ ~emailExists(req.body.email) /\ ~usernameExists(req.body.username)
     THEN {"validFresh"} ELSE {})

Register(T) ==
    /\ booted
    /\ \E token \in T, rest \in RegisterRest,
          username \in {"u1", "admin123"}, email \in {"e1", "admin123@example.com", "bad"} :
        LET req == [token |-> token, id |-> BadId,
                    body |-> [name |-> rest.name, username |-> username, email |-> email,
                              strong |-> rest.strong, role |-> rest.role]]
        IN Handle("register", req, RegisterTags(req), 0)

\* what the id of a request names in a store, read off before the request
TargetTags(store, id) ==
    IF id = BadId THEN {"noTarget", "badId"}
    ELSE IF id \notin DOMAIN store THEN {"noTarget"}
    ELSE IF ~store[id].status THEN {"inactive"}
    ELSE {}

GetUserById(T) ==
    /\ booted
    /\ \E token \in T :
        IF ~GuardsPass("getUserById", token) THEN Rejected("getUserById", token)
        ELSE \E uid \in UidParams :
                Handle("getUserById", [token |-> token, id |-> uid],
                       TargetTags(users, uid), 0)

\* one DELETE /user request
DeleteUserReq(token) ==
    IF ~GuardsPass("deleteUser", token) THEN Rejected("deleteUser", token)
    ELSE Handle("deleteUser", [token |-> token], TargetTags(users, token), token)

DeleteUser(T) ==
    /\ booted
    /\ \E token \in T : DeleteUserReq(token)

UserPatchValues(f) ==
    CASE f = "username" -> Usernames
      [] f = "email" -> Emails
      [] f = "role" -> Roles
      [] f = "status" -> BOOLEAN
      [] f = "password" -> Plaintexts

\* one PUT /updateUser/:uid request
AdminUpdateUserReq(token, uid, body) ==
    IF ~GuardsPass("adminUpdateUser", token) THEN Rejected("adminUpdateUser", token)
    ELSE Handle("adminUpdateUser", [token |-> token, id |-> uid, body |-> body],
                TargetTags(users, uid), 0)

AdminUpdateUser(T, Ids, Fields) ==
    /\ booted
    /\ \E token \in T :
        IF ~GuardsPass("adminUpdateUser", token) THEN Rejected("adminUpdateUser", token)
        ELSE \E uid \in Ids, f \in Fields :
                \E v \in UserPatchValues(f) : AdminUpdateUserReq(token, uid, f :> v)

\* PUT /updateUser has no :uid, so the controller calls findByIdAndUpdate(undefined, ...):
\* depending on the query layer the filter {_id: undefined} matches no document or is
\* read as {} and matches any one document
SelfUpdateTargets == (DOMAIN users) \cup {MaxUsers + 1}

\* one PUT /updateUser request; t is the document the store's filter selects
SelfUpdateUserReq(token, roleOk, t, body) ==
    IF ~GuardsPass("selfUpdateUser", token) THEN Rejected("selfUpdateUser", token)
    ELSE Handle("selfUpdateUser",
                [token |-> token, id |-> t, body |-> body, roleOk |-> roleOk], {}, 0)

SelfUpdateUser(T, Fields) ==
    /\ booted
    /\ \E token \in T :
        IF ~GuardsPass("selfUpdateUser", token) THEN Rejected("selfUpdateUser", token)
        ELSE \E roleOk \in BOOLEAN, f \in Fields, t \in SelfUpdateTargets :
                \E v \in UserPatchValues(f) : SelfUpdateUserReq(token, roleOk, t, f :> v)

\* one POST /company request; route names the createCompany the deployment has
CreateCompanyReq(route, token, body) ==
    IF ~GuardsPass(route, token) THEN Rejected(route, token)
    ELSE Handle(route, [token |-> token, id |-> BadId, body |-> body], {}, 0)

CreateCompany(T, Bodies) ==
    /\ booted
    /\ \E token \in T :
        IF ~GuardsPass("createCompany", token) THEN Rejected("createCompany", token)
        ELSE \E body \in Bodies : CreateCompanyReq("createCompany", token, body)

\* POST /company in front of the createCompany that reads yearsTrajectory as the
\* founding year
CreateCompanyFoundingYear(T, Bodies) ==
    /\ booted
    /\ \E token \in T :
        IF ~GuardsPass("createCompanyFoundingYear", token)
        THEN Rejected("createCompanyFoundingYear", token)
        ELSE \E body \in Bodies : CreateCompanyReq("createCompanyFoundingYear", token, body)

GetCompanyById(T) ==
    /\ booted
    /\ \E token \in T :
        IF ~GuardsPass("getCompanyById", token) THEN Rejected("getCompanyById", token)
        ELSE \E id \in CidParams :
                Handle("getCompanyById", [token |-> token, id |-> id],
                       TargetTags(companies, id), 0)

CompanyPatchValues(f) ==
    CASE f = "status" -> BOOLEAN
      [] f = "yearsTrajectory" -> {-1} \cup Years
      [] f = "category" -> Categories
      [] f = "createdBy" -> UserIds \cup {MaxUsers + 1}
      [] f = "name" -> CompanyNames

\* the deployments of PUT /company/:id: the updateCompanyValidator with body rules in
\* front of the updateCompany that passes runValidators, and the one with the id
\* rules only in front of the updateCompany that does not
UpdateVariants ==
    { [route |-> "updateCompany", rv |-> TRUE],
      [route |-> "updateCompanyIdOnly", rv |-> FALSE] }

\* one PUT /company/:id request
UpdateCompanyReq(var, token, id, body) ==
    IF ~GuardsPass(var.route, token) THEN Rejected(var.route, token)
    ELSE Handle(var.route, [token |-> token, id |-> id, body |-> body, rv |-> var.rv],
                TargetTags(companies, id), 0)

UpdateCompany(T, Variants, Ids, Fields) ==
    /\ booted
    /\ \E token \in T, var \in Variants :
        IF ~GuardsPass(var.route, token) THEN Rejected(var.route, token)
        ELSE \E id \in Ids, f \in Fields :
                \E v \in CompanyPatchValues(f) : UpdateCompanyReq(var, token, id, f :> v)

DeleteCompany(T, Ids) ==
    /\ booted
    /\ \E token \in T :
        IF ~GuardsPass("deleteCompany", token) THEN Rejected("deleteCompany", token)
        ELSE \E id \in Ids :
                Handle("deleteCompany", [token |-> token, id |-> id],
                       TargetTags(companies, id), id)

\* the report lists every active company
Report(T) ==
    /\ booted
    /\ \E token \in T :
        IF ~GuardsPass("report", token) THEN Rejected("report", token)
        ELSE Respond("report", token, RunChain("report", [token |-> token]),
                     generateCompaniesReport, TRUE, {}, 0, NoFilter, Absent,
                     Natural(Selected("getCompaniesSimple", NoFilter)))

ListKinds == {"getCompanies", "getCompaniesSimple", "getUsers"}

\* the filters a list route reads: only getCompanies with filters reads any
FiltersOf(kind) == IF kind = "getCompanies" THEN Filters ELSE {NoFilter}

\* a list request whose two queries the store serves back to back
List(T) ==
    /\ booted
    /\ \E token \in T, kind \in ListKinds :
        IF ~GuardsPass(kind, token) THEN Rejected(kind, token)
        ELSE \E q \in FiltersOf(kind), pg \in Pagings :
                Respond(kind, token, RunChain(kind, [token |-> token]),
                        Result(200, users, companies), TRUE, {}, 0, q,
                        CountDocuments(kind, q), Find(kind, q, pg))

(* The same list request, query by query: Promise.all issues countDocuments and find
   together and the store serves each at its own instant, in either order, with
   other requests served in between. *)

ListStart(T) ==
    /\ booted
    /\ list.pc = "idle"
    /\ \E token \in T, kind \in ListKinds :
        IF ~GuardsPass(kind, token) THEN Rejected(kind, token)
        ELSE /\ \E q \in FiltersOf(kind) :
                   list' = [ListIdle EXCEPT !.pc = "pending", !.kind = kind, !.q = q]
             /\ UNCHANGED <<users, companies, booted, last, inflight, server>>

ListCount ==
    /\ list.pc = "pending"
    /\ ~list.counted
    /\ list' = [list EXCEPT !.counted = TRUE, !.total = CountDocuments(list.kind, list.q)]
    /\ UNCHANGED <<users, companies, booted, last, inflight, server>>

\* order, limite and desde are read by find alone
ListFind ==
    /\ list.pc = "pending"
    /\ ~list.found
    /\ \E pg \in Pagings :
          list' = [list EXCEPT !.found = TRUE, !.page = Find(list.kind, list.q, pg)]
    /\ UNCHANGED <<users, companies, booted, last, inflight, server>>

ListRespond ==
    /\ list.pc = "pending"
    /\ list.counted
    /\ list.found
    /\ last' = [NoRequest EXCEPT
                  !.route = list.kind, !.status = 200, !.ctrl = TRUE,
                  !.ran = Chain(list.kind), !.auth = "admin",
                  !.tags = IF list.dirty THEN {"dirty"} ELSE {},
                  !.q = list.q, !.total = list.total, !.page = list.page]
    /\ list' = ListIdle
    /\ UNCHANGED <<users, companies, booted, inflight, server>>

-----------------------------------------------------------------------------
(* Requests in flight: the chain and the controller of a request are separate
   asynchronous steps, and the steps of other requests run between them *)

\* the requests in flight, numbered in the order they arrived
Slots == DOMAIN inflight

NoInflight == << >>

Arrived(route, req) ==
    [pc |-> "arrived", route |-> route, req |-> req, ctx |-> NewCtx, status |-> 0,
     early |-> FALSE]

\* the chain of an arrived request runs against the store as it is now; a chain that
\* answers ends the request
ChainStep(s) ==
    /\ booted
    /\ inflight[s].pc = "arrived"
    /\ LET ctx == RunChain(inflight[s].route, inflight[s].req) IN
       inflight' = [inflight EXCEPT
                      ![s].ctx = ctx,
                      ![s].status = ctx.status,
                      ![s].pc = IF ctx.status # 0 THEN "answered" ELSE "validated"]
    /\ UNCHANGED <<users, companies, booted, last, list, server>>

\* the controller of a request whose chain has passed runs against the store as it
\* is now (early: it ran while another request had not yet run its chain)
ControllerStep(s) ==
    /\ booted
    /\ inflight[s].pc = "validated"
    /\ LET res == Controller(inflight[s].route, inflight[s].req, inflight[s].ctx) IN
       /\ Fits(res.users, users, MaxUsers)
       /\ Fits(res.companies, companies, MaxCompanies)
       /\ users' = res.users
       /\ companies' = res.companies
       /\ inflight' = [inflight EXCEPT
                         ![s].status = res.status,
                         ![s].pc = "answered",
                         ![s].early = \E o \in Slots : inflight[o].pc = "arrived"]
    /\ UNCHANGED <<booted, last, list, server>>

-----------------------------------------------------------------------------
(* Process start *)

\* initServer taken as one step (Bootstrap): the process has connected, run
\* createDefaultAdmin, mounted the routes and listens
InitServerWhole ==
    [pc |-> "listening", db |-> "up", admin |-> "done", routes |-> TRUE, listening |-> TRUE]

\* initServer: createDefaultAdmin runs once the store is connected and before the
\* routes are mounted
Bootstrap ==
    /\ ~booted
    /\ LET us == createDefaultAdmin IN
       /\ Fits(us, users, MaxUsers)
       /\ users' = us
       /\ last' = [NoRequest EXCEPT
                     !.route = "bootstrap",
                     !.changed = (us # users),
                     !.tags = IF \E i \in DOMAIN users : users[i].role = "ADMIN"
                              THEN {"hadAdmin"} ELSE {"noAdmin"}]
    /\ booted' = TRUE
    /\ UNCHANGED <<companies, list, inflight, server>>

\* the process stops and is started again on the same store
Restart ==
    /\ booted
    /\ booted' = FALSE
    /\ last' = NoRequest
    /\ list' = ListIdle
    /\ inflight' = NoInflight
    /\ UNCHANGED <<users, companies, server>>

-----------------------------------------------------------------------------
(* Spec: every route, each request served whole *)

\* request bodies of POST /company: valid ones, and one failing each kind of rule
CompanyBodies ==
    { [name |-> "Acme", levelImpact |-> "Alto", yearsTrajectory |-> 0, category |-> "tech"],
      [name |-> "Beta", levelImpact |-> "Alto", yearsTrajectory |-> 1, category |-> "tech"],
      [name |-> "", levelImpact |-> "Alto", yearsTrajectory |-> 0, category |-> "tech"],
      [name |-> "Acme", levelImpact |-> "x", yearsTrajectory |-> 0, category |-> "tech"],
      [name |-> "Acme", levelImpact |-> "Alto", yearsTrajectory |-> -1, category |-> "tech"] }

Init ==
    /\ users \in InitialUserStores
    /\ companies = EmptyStore
    /\ booted = FALSE
    /\ last = NoRequest
    /\ list = ListIdle
    /\ inflight = NoInflight
    /\ server = InitServerWhole

Next ==
    \/ Bootstrap
    \/ Restart
    \/ Register({NoToken})
    \/ GetUserById(Tokens)
    \/ DeleteUser(Tokens)
    \/ AdminUpdateUser(Tokens, UidParams, {"role", "status"})
    \/ SelfUpdateUser(Tokens, {"role", "status"})
    \/ CreateCompany(Tokens, CompanyBodies)
    \/ GetCompanyById(Tokens)
    \/ UpdateCompany(Tokens, UpdateVariants, CidParams, {"status"})
    \/ DeleteCompany(Tokens, CidParams)
    \/ Report(Tokens)
    \/ List(Tokens)

Spec == Init /\ [][Next]_vars

-----------------------------------------------------------------------------
(* SpecList: list requests served query by query, among the requests that write *)

\* the stores of companies a process can start on
InitialCompanyStores ==
    UNION { { [i \in 1..n |-> [name |-> SeedCompanyNames[i], levelImpact |-> "Alto",
                               yearsTrajectory |-> f[i].yearsTrajectory,
                               category |-> "tech", createdBy |-> 1,
                               status |-> f[i].status]] :
              f \in [1..n -> [yearsTrajectory : Years, status : BOOLEAN]] } :
            n \in 0..MaxCompanies }

ListCompanyBodies ==
    [name : CompanyNames, levelImpact : {"Alto"}, yearsTrajectory : {1},
     category : {"tech"}]

InitList ==
    /\ users = [i \in {1} |-> [username |-> SeedNames[1], email |-> SeedEmails[1],
                               role |-> "ADMIN", status |-> TRUE,
                               password |-> hash(StrongPassword)]]
    /\ companies \in InitialCompanyStores
    /\ booted = TRUE
    /\ last = NoRequest
    /\ list = ListIdle
    /\ inflight = NoInflight
    /\ server = InitServerWhole

NextList ==
    \/ ListStart(AdminTokens)
    \/ ListCount
    \/ ListFind
    \/ ListRespond
    \/ CreateCompany(AdminTokens, ListCompanyBodies)
    \/ UpdateCompany(AdminTokens, {[route |-> "updateCompany", rv |-> TRUE]},
                     DOMAIN companies, {"yearsTrajectory"})
    \/ DeleteCompany(AdminTokens, DOMAIN companies)
    \/ AdminUpdateUser(AdminTokens, DOMAIN users, {"status"})

SpecList == InitList /\ [][NextList]_vars

-----------------------------------------------------------------------------
(* SpecCompany: the company writes, in every deployment of the create and update
   controllers, by the administrators of a store *)

\* a store of active administrators
SeedAdmins ==
    [i \in 1..MaxSeedUsers |-> [username |-> SeedNames[i], email |-> SeedEmails[i],
                                role |-> "ADMIN", status |-> TRUE,
                                password |-> hash(StrongPassword)]]

\* bodies of POST /company that pass createCompanyValidator
DirectValueBodies ==
    [name : CompanyNames, levelImpact : {"Alto"}, yearsTrajectory : Years,
     category : {"tech"}]

\* the same with yearsTrajectory carrying a founding year: a past one, a future one
FoundingYears == {2005, 2024}

FoundingYearBodies ==
    [name : CompanyNames, levelImpact : {"Alto"}, yearsTrajectory : FoundingYears,
     category : {"tech"}]

\* either updateCompanyValidator in front of either updateCompany
AllUpdateVariants ==
    { [route |-> r, rv |-> b] : r \in {"updateCompany", "updateCompanyIdOnly"}, b \in BOOLEAN }

InitCompany ==
    /\ users = SeedAdmins
    /\ companies = EmptyStore
    /\ booted = TRUE
    /\ last = NoRequest
    /\ list = ListIdle
    /\ inflight = NoInflight
    /\ server = InitServerWhole

NextCompany ==
    \/ CreateCompany(AdminTokens, DirectValueBodies)
    \/ CreateCompanyFoundingYear(AdminTokens, FoundingYearBodies)
    \/ UpdateCompany({1}, AllUpdateVariants, CidParams, {"yearsTrajectory", "createdBy"})

SpecCompany == InitCompany /\ [][NextCompany]_vars

-----------------------------------------------------------------------------
(* SpecUsers: the requests that write user records, on a store of several users *)

SeedUsers ==
    [i \in 1..MaxSeedUsers |->
        [username |-> SeedNames[i], email |-> SeedEmails[i],
         role |-> IF i = 1 THEN "ADMIN" ELSE "CLIENT", status |-> TRUE,
         password |-> hash(StrongPassword)]]

SeedCompanies ==
    [i \in 1..MaxCompanies |->
        [name |-> SeedCompanyNames[i], levelImpact |-> "Alto", yearsTrajectory |-> 0,
         category |-> "tech", createdBy |-> 1, status |-> TRUE]]

InitUsers ==
    /\ users = SeedUsers
    /\ companies = SeedCompanies
    /\ booted = FALSE
    /\ last = NoRequest
    /\ list = ListIdle
    /\ inflight = NoInflight
    /\ server = InitServerWhole

NextUsers ==
    \/ Bootstrap
    \/ Restart
    \/ Register({NoToken})
    \/ AdminUpdateUser(AdminTokens, {1}, {"email", "password"})
    \/ SelfUpdateUser(DOMAIN users, {"username"})
    \/ DeleteUser(DOMAIN users)

SpecUsers == InitUsers /\ [][NextUsers]_vars

-----------------------------------------------------------------------------
(* SpecRoutes: the company router as its route files mount it *)

\* company.routes.js: the routes the router mounts
CompanyRoutes ==
    { [method |-> "POST", path |-> "/", controller |-> "createCompany"],
      [method |-> "GET", path |-> "/report/excel", controller |-> "report"],
      [method |-> "GET", path |-> "/", controller |-> "getCompanies"],
      [method |-> "GET", path |-> "/:id", controller |-> "getCompanyById"],
      [method |-> "PUT", path |-> "/:id", controller |-> "updateCompany"] }

\* the route file that imports deleteCompany and deleteCompanyValidator: the routes
\* it mounts
CompanyRoutesImportingDelete ==
    { [method |-> "POST", path |-> "/", controller |-> "createCompany"],
      [method |-> "GET", path |-> "/", controller |-> "getCompanies"],
      [method |-> "GET", path |-> "/:id", controller |-> "getCompanyById"],
      [method |-> "PUT", path |-> "/:id", controller |-> "updateCompany"] }

CompanyRouteVariants == {CompanyRoutes, CompanyRoutesImportingDelete}

\* the controller the router dispatches a request to; "none" when no route matches
Dispatch(table, method, path) ==
    IF \E r \in table : r.method = method /\ r.path = path
    THEN (CHOOSE r \in table : r.method = method /\ r.path = path).controller
    ELSE "none"

\* a request no route matches falls through the router and is answered 404
Unrouted(token) ==
    Respond("unrouted", token, NewCtx, Result(404, users, companies), FALSE, {}, 0,
            NoFilter, Absent, <<>>)

\* one request to the company router of a route file
CompanyRouterReq(table, method, path, token, id, body) ==
    LET ctl == Dispatch(table, method, path) IN
    IF ctl = "none" THEN Unrouted(token)
    ELSE IF ~GuardsPass(ctl, token) THEN Rejected(ctl, token)
    ELSE Handle(ctl, [token |-> token, id |-> id, body |-> body, rv |-> TRUE],
                TargetTags(companies, id), id)

PostCompany(V, T) ==
    /\ booted
    /\ \E table \in V, token \in T, body \in DirectValueBodies :
          CompanyRouterReq(table, "POST", "/", token, BadId, body)

GetCompany(V, T) ==
    /\ booted
    /\ \E table \in V, token \in T, id \in CidParams :
          CompanyRouterReq(table, "GET", "/:id", token, id, << >>)

PutCompany(V, T) ==
    /\ booted
    /\ \E table \in V, token \in T, id \in CidParams, v \in BOOLEAN :
          CompanyRouterReq(table, "PUT", "/:id", token, id, "status" :> v)

DeleteCompanyById(V, T) ==
    /\ booted
    /\ \E table \in V, token \in T, id \in CidParams :
          CompanyRouterReq(table, "DELETE", "/:id", token, id, << >>)

GetReport(V, T) ==
    /\ booted
    /\ \E table \in V, token \in T :
          CompanyRouterReq(table, "GET", "/report/excel", token, BadId, << >>)

InitRoutes ==
    /\ users = SeedUsers
    /\ companies \in InitialCompanyStores
    /\ booted = TRUE
    /\ last = NoRequest
    /\ list = ListIdle
    /\ inflight = NoInflight
    /\ server = InitServerWhole

NextRoutes ==
    \/ PostCompany(CompanyRouteVariants, Tokens)
    \/ GetCompany(CompanyRouteVariants, Tokens)
    \/ PutCompany(CompanyRouteVariants, Tokens)
    \/ DeleteCompanyById(CompanyRouteVariants, Tokens)
    \/ GetReport(CompanyRouteVariants, Tokens)

SpecRoutes == InitRoutes /\ [][NextRoutes]_vars

-----------------------------------------------------------------------------
(* SpecRace: requests that arrive together, their chains and controllers
   interleaved in every order *)

\* the e-mail address the registrations in flight ask for: no stored record has it
RaceEmail == SeedEmails[MaxSeedUsers + 1]

RaceRegistrations ==
    { Arrived("register",
              [token |-> t, id |-> BadId,
               body |-> [name |-> "n", username |-> u, email |-> RaceEmail,
                         strong |-> TRUE, role |-> "ADMIN"]]) :
        t \in {NoToken, 1}, u \in {SeedNames[MaxSeedUsers + 1], "admin123"} }

RaceCreations ==
    { Arrived("createCompany", [token |-> 1, id |-> BadId, body |-> b]) :
        b \in DirectValueBodies }

\* GET /company/:id and PUT /company/:id (a patch that deactivates the company)
RaceReadsAndUpdates ==
    { Arrived("getCompanyById", [token |-> 1, id |-> i]) : i \in 1..MaxCompanies }
    \cup
    { Arrived(r, [token |-> 1, id |-> i, body |-> "status" :> FALSE, rv |-> TRUE]) :
        r \in {"updateCompany", "updateCompanyIdOnly"}, i \in 1..MaxCompanies }

InitRace ==
    /\ users = SeedAdmins
    /\ companies = EmptyStore
    /\ booted = TRUE
    /\ last = NoRequest
    /\ list = ListIdle
    /\ inflight \in [1..MaxInflight ->
                        RaceRegistrations \cup RaceCreations \cup RaceReadsAndUpdates]
    /\ server = InitServerWhole

NextRace ==
    \/ \E s \in Slots : ChainStep(s)
    \/ \E s \in Slots : ControllerStep(s)

SpecRace == InitRace /\ [][NextRace]_vars

-----------------------------------------------------------------------------
(* SpecStart: initServer statement by statement *)

\* the process before initServer has run a statement
ServerNew ==
    [pc |-> "new", db |-> "none", admin |-> "no", routes |-> FALSE, listening |-> FALSE]

\* dbConnection: the connection is established, or the attempt throws
dbConnection == {"up", "down"}

\* conectarDB that logs a failed connection and returns
conectarDBLogsOnly(srv, outcome) ==
    [srv EXCEPT !.pc = "connected", !.db = outcome]

\* conectarDB: awaits dbConnection; a failure is logged and ends the process
conectarDB(srv, outcome) ==
    IF outcome = "up"
    THEN [srv EXCEPT !.pc = "connected", !.db = "up"]
    ELSE [srv EXCEPT !.pc = "exited", !.db = "down"]

\* middlewares(app)
Middlewares ==
    /\ server.pc = "new"
    /\ server' = [server EXCEPT !.pc = "middlewares"]
    /\ UNCHANGED <<users, companies, booted, last, list, inflight>>

\* await conectarDB()
ConectarDB ==
    /\ server.pc = "middlewares"
    /\ \E outcome \in dbConnection : server' = conectarDB(server, outcome)
    /\ UNCHANGED <<users, companies, booted, last, list, inflight>>

\* createDefaultAdmin() is called
StartDefaultAdmin ==
    /\ server.pc = "connected"
    /\ server' = [server EXCEPT !.pc = "bootstrap", !.admin = "running"]
    /\ UNCHANGED <<users, companies, booted, last, list, inflight>>

\* the promise of createDefaultAdmin() settles and the await returns
FinishDefaultAdmin ==
    /\ server.pc = "bootstrap"
    /\ LET us == createDefaultAdmin IN
       /\ Fits(us, users, MaxUsers)
       /\ users' = us
    /\ server' = [server EXCEPT !.pc = "bootstrapped", !.admin = "done"]
    /\ UNCHANGED <<companies, booted, last, list, inflight>>

\* routes(app)
MountRoutes ==
    /\ server.pc = "bootstrapped"
    /\ server' = [server EXCEPT !.pc = "mounted", !.routes = TRUE]
    /\ UNCHANGED <<users, companies, booted, last, list, inflight>>

\* app.listen(process.env.PORT): from here on requests are served
Listen ==
    /\ server.pc = "mounted"
    /\ server' = [server EXCEPT !.pc = "listening", !.listening = TRUE]
    /\ booted' = TRUE
    /\ UNCHANGED <<users, companies, last, list, inflight>>

\* the process ends, or has ended, and is started again on the same store
StartAgain ==
    /\ server.pc # "new"
    /\ server' = ServerNew
    /\ booted' = FALSE
    /\ last' = NoRequest
    /\ UNCHANGED <<users, companies, list, inflight>>

InitStart ==
    /\ users \in InitialUserStores
    /\ companies = EmptyStore
    /\ booted = FALSE
    /\ last = NoRequest
    /\ list = ListIdle
    /\ inflight = NoInflight
    /\ server = ServerNew

NextStart ==
    \/ Middlewares
    \/ ConectarDB
    \/ StartDefaultAdmin
    \/ FinishDefaultAdmin
    \/ MountRoutes
    \/ Listen
    \/ StartAgain
    \/ GetUserById(Tokens)
    \/ CreateCompany(Tokens, CompanyBodies)
    \/ GetCompanyById(Tokens)

SpecStart == InitStart /\ [][NextStart]_vars

-----------------------------------------------------------------------------
(* SpecPage: getCompanies on stores of several companies *)

\* stores of up to MaxListed companies whose names are in any order of insertion
PageStores ==
    UNION { { [i \in 1..n |-> [name |-> SeedCompanyNames[nm[i]], levelImpact |-> "Alto",
                               yearsTrajectory |-> f[i].yearsTrajectory,
                               category |-> "tech", createdBy |-> 1,
                               status |-> f[i].status]] :
              nm \in {g \in [1..n -> 1..MaxListed] : \A a, b \in 1..n : a # b => g[a] # g[b]},
              f \in [1..n -> [yearsTrajectory : Years, status : BOOLEAN]] } :
            n \in 0..MaxListed }

\* order, limite and desde of the query strings sent to these stores
PagePagings ==
    Pagings \cup { [order |-> "desc", limite |-> 2, desde |-> 1],
                   [order |-> "asc", limite |-> 1, desde |-> 1] }

\* one GET /company request of the filtering variant
GetCompaniesReq(token, q, pg) ==
    IF ~GuardsPass("getCompanies", token) THEN Rejected("getCompanies", token)
    ELSE Respond("getCompanies", token, RunChain("getCompanies", [token |-> token]),
                 Result(200, users, companies), TRUE, {}, 0, q,
                 CountDocuments("getCompanies", q), Find("getCompanies", q, pg))

GetCompanies(T) ==
    /\ booted
    /\ \E token \in T, q \in Filters, pg \in PagePagings : GetCompaniesReq(token, q, pg)

InitPage ==
    /\ users = [i \in {1} |-> [username |-> SeedNames[1], email |-> SeedEmails[1],
                               role |-> "ADMIN", status |-> TRUE,
                               password |-> hash(StrongPassword)]]
    /\ companies \in PageStores
    /\ booted = TRUE
    /\ last = NoRequest
    /\ list = ListIdle
    /\ inflight = NoInflight
    /\ server = InitServerWhole

NextPage == GetCompanies(Tokens)

SpecPage == InitPage /\ [][NextPage]_vars

-----------------------------------------------------------------------------
(* Properties *)

AdminOnlyRoutes ==
    { "createCompany", "getCompanies", "getCompaniesSimple", "getCompanyById",
      "updateCompany", "updateCompanyIdOnly", "deleteCompany", "report",
      "getUserById", "adminUpdateUser", "selfUpdateUser", "deleteUser" }

C2_RoleCheckAfterValidateJWT ==
    \A i \in DOMAIN last.ran :
        IsRoleCheck(last.ran[i]) => \E j \in 1..(i - 1) : last.ran[j] = "validateJWT"

\* C3: a register request whose email or username is that of an existing user
\* record is answered 400 and leaves the user records unchanged.
C3_DuplicateRegisterIs400 ==
    (last.route = "register" /\ "dup" \in last.tags) =>
        (last.status = 400 /\ ~last.changed)

\* C4: a register request with no token, every field valid and a fresh email and
\* username passes the chain, reaches the controller and is answered 201.
C4_FreshRegisterIs201 ==
    (last.route = "register" /\ "validFresh" \in last.tags) =>
        (last.status = 201 /\ last.ctrl /\ last.changed)

Admins == {i \in DOMAIN users : users[i].role = "ADMIN"}

\* C5: createDefaultAdmin on a store without an ADMIN leaves exactly one ADMIN, named
\* "admin123"; on a store that has an ADMIN it creates no user.
C5_BootstrapCreatesOneAdmin ==
    /\ (last.route = "bootstrap" /\ "noAdmin" \in last.tags) =>
          /\ Cardinality(Admins) = 1
          /\ \A i \in Admins : users[i].username = "admin123"
    /\ (last.route = "bootstrap" /\ "hadAdmin" \in last.tags) => ~last.changed

\* C6: once initServer has run createDefaultAdmin, the store holds at least one user
\* record with role ADMIN.
C6_AlwaysAnAdmin == booted => Admins # {}

\* the records a list request is meant to count: status true and matching the
\* request's minYears, maxYears and category
Matching(kind, q) ==
    IF kind = "getUsers"
    THEN {i \in DOMAIN users : users[i].status}
    ELSE {i \in DOMAIN companies :
            /\ companies[i].status
            /\ q.minYears # Absent => companies[i].yearsTrajectory >= q.minYears
            /\ q.maxYears # Absent => companies[i].yearsTrajectory <= q.maxYears
            /\ q.category # "" => companies[i].category = q.category}

\* C7 as stated: the total a list request returns is the number of active records
\* matching its filters when it answers, whatever requests were served between its
\* count and find queries.
C7_TotalIsMatchingCount ==
    (last.route \in ListKinds /\ last.status = 200) =>
        last.total = Cardinality(Matching(last.route, last.q))

\* C7 amended: the total a list request returns is the number of active records
\* matching its filters when it answers, for every limite and desde, provided no
\* request changed the store between the count query and the answer.
C7_TotalIsMatchingCountUndisturbed ==
    (last.route \in ListKinds /\ last.status = 200 /\ "dirty" \notin last.tags) =>
        last.total = Cardinality(Matching(last.route, last.q))

\* C7 witness: a filtered getCompanies answered with a page cut by limite or desde
\* and a total that counts a matching record
C7_Witness ==
    /\ last.route = "getCompanies"
    /\ last.status = 200
    /\ "dirty" \notin last.tags
    /\ last.q.minYears = 1
    /\ last.total = 1
    /\ last.page = <<>>

\* C8: after a successful logical delete the record is still stored with status
\* false, and after whatever operation comes next an active-only listing excludes it.
C8_DeletedStaysExcluded ==
    [][ /\ (last.route = "deleteCompany" /\ last.status = 200) =>
              /\ last.target \in DOMAIN companies
              /\ ~companies[last.target].status
              /\ last.target \in DOMAIN companies'
              /\ last.target \notin Selected("getCompaniesSimple", NoFilter)'
        /\ (last.route = "deleteUser" /\ last.status = 200) =>
              /\ last.target \in DOMAIN users
              /\ ~users[last.target].status
              /\ last.target \in DOMAIN users'
              /\ last.target \notin Selected("getUsers", NoFilter)' ]_vars

\* C9: no step removes a record: the user ids and the company ids of the store only
\* grow or stay the same.
C9_NoRecordRemoved ==
    [][ /\ DOMAIN users \subseteq DOMAIN users'
        /\ DOMAIN companies \subseteq DOMAIN companies' ]_vars

\* C9 witness: a logical delete succeeded and its target is still stored, inactive
C9_Witness ==
    /\ last.route = "deleteCompany"
    /\ last.status = 200
    /\ last.changed
    /\ last.target \in DOMAIN companies
    /\ ~companies[last.target].status

UpdateByIdRoutes == {"updateCompany", "updateCompanyIdOnly", "adminUpdateUser"}

Ran(m) == \E i \in DOMAIN last.ran : last.ran[i] = m

NameTaken(name) == \E i \in DOMAIN companies : companies[i].name = name

StoreUnchanged == users' = users /\ companies' = companies

\* C13: a persistence call that the store rejects (a duplicate name or a negative
\* yearsTrajectory on save, a negative yearsTrajectory on an update that runs the
\* schema validators) is answered 500 by the controller and leaves the store unchanged.
C13_PersistenceFailureIs500 ==
    [][ /\ last'.route = "createCompany" =>
              \A t \in AdminTokens, b \in DirectValueBodies :
                 (NameTaken(b.name) /\ CreateCompanyReq("createCompany", t, b)) =>
                     (last'.ctrl /\ last'.status = 500 /\ StoreUnchanged)
        /\ last'.route = "createCompanyFoundingYear" =>
              \A t \in AdminTokens, b \in FoundingYearBodies :
                 (/\ NameTaken(b.name) \/ b.yearsTrajectory > CurrentYear
                  /\ CreateCompanyReq("createCompanyFoundingYear", t, b)) =>
                     (last'.ctrl /\ last'.status = 500 /\ StoreUnchanged)
        /\ last'.route = "updateCompanyIdOnly" =>
              \A t \in AdminTokens, id \in DOMAIN companies :
                 UpdateCompanyReq([route |-> "updateCompanyIdOnly", rv |-> TRUE], t, id,
                                  "yearsTrajectory" :> -1) =>
                     (last'.ctrl /\ last'.status = 500 /\ StoreUnchanged) ]_vars

\* C13 witness: a POST /company that passed the chain was answered 500 by the
\* controller, the store as before
C13_Witness ==
    /\ last.route = "createCompany"
    /\ last.ctrl
    /\ last.status = 500
    /\ ~last.changed
    /\ companies # EmptyStore

Added == DOMAIN companies' \ DOMAIN companies

\* C14: the founding-year createCompany stores, for every request it accepts,
\* currentYear minus the supplied value; founding year 2005 in 2023 gives 18.
C14_FoundingYearTrajectory ==
    [][ \A t \in AdminTokens, b \in FoundingYearBodies :
          (/\ last'.route = "createCompanyFoundingYear" /\ last'.status = 201
           /\ CreateCompanyReq("createCompanyFoundingYear", t, b)) =>
              /\ Cardinality(Added) = 1
              /\ \A i \in Added :
                    /\ companies'[i].yearsTrajectory = CurrentYear - b.yearsTrajectory
                    /\ (CurrentYear = 2023 /\ b.yearsTrajectory = 2005) =>
                          companies'[i].yearsTrajectory = 18 ]_vars

\* C14 witness: the founding-year createCompany answered 201 and a record with
\* trajectory 18 is stored
C14_Witness ==
    /\ last.route = "createCompanyFoundingYear"
    /\ last.status = 201
    /\ \E i \in DOMAIN companies : companies[i].yearsTrajectory = 18

\* the one record a create request adds, as the claim describes it
CreatedAsRequested(t, b) ==
    /\ last'.status = 201
    /\ users' = users
    /\ Cardinality(Added) = 1
    /\ \A i \in DOMAIN companies : companies'[i] = companies[i]
    /\ \A i \in Added :
          companies'[i] = [name |-> b.name, levelImpact |-> b.levelImpact,
                           yearsTrajectory |-> b.yearsTrajectory,
                           category |-> b.category, createdBy |-> t, status |-> TRUE]

C16_YearsNonNegative ==
    \A i \in DOMAIN companies : companies[i].yearsTrajectory >= 0

\* C20: a company's createdBy is the identity whose create request produced it, and
\* no later operation changes it.
C20_CreatedByNeverChanges ==
    [][ /\ \A t \in AdminTokens, b \in DirectValueBodies :
              (CreateCompanyReq("createCompany", t, b) /\ last'.status = 201) =>
                  \A i \in Added : companies'[i].createdBy = t
        /\ \A i \in DOMAIN companies :
              i \in DOMAIN companies' /\ companies'[i].createdBy = companies[i].createdBy
      ]_vars

C19_SelfUpdateAppliesToOwnRecord ==
    [][ \A token \in DOMAIN users, t \in SelfUpdateTargets, v \in Usernames :
          (/\ SelfUpdateUserReq(token, TRUE, t, "username" :> v)
           /\ \A i \in DOMAIN users : i # token => users[i].username # v) =>
              /\ last'.status = 200
              /\ users' = [users EXCEPT ![token] = Patch(@, "username" :> v)] ]_vars

IsRegistration(s) == inflight[s].route = "register"

\* C18: when two registrations with the same unregistered e-mail address are in
\* flight and both chains run before either controller, both emailExists checks
\* pass, one insert succeeds and only the unique index rejects the other (500):
\* exactly one record has the address.
C18_BothChecksPassBeforeEitherInsert ==
    \A a, b \in Slots :
        (/\ a # b
         /\ IsRegistration(a) /\ IsRegistration(b)
         /\ inflight[a].req.body.username # inflight[b].req.body.username
         /\ inflight[a].pc = "answered" /\ inflight[b].pc = "answered"
         /\ ~inflight[a].early /\ ~inflight[b].early) =>
            /\ "email.emailExists" \notin inflight[a].ctx.errors
            /\ "email.emailExists" \notin inflight[b].ctx.errors
            /\ \E i \in 1..Len(inflight[a].ctx.ran) :
                  inflight[a].ctx.ran[i] = "email.emailExists"
            /\ \E i \in 1..Len(inflight[b].ctx.ran) :
                  inflight[b].ctx.ran[i] = "email.emailExists"
            /\ {inflight[a].status, inflight[b].status} = {201, 500}
            /\ Cardinality({i \in DOMAIN users : users[i].email = RaceEmail}) = 1

\* C30: a founding-year createCompany request of an ADMIN whose yearsTrajectory is
\* after the current year passes the validator chain, reaches the controller and is
\* answered 500, and no company record is added.
C30_FutureFoundingYearIs500 ==
    [][ \A t \in AdminTokens, b \in FoundingYearBodies :
          (/\ last'.route = "createCompanyFoundingYear"
           /\ b.yearsTrajectory > CurrentYear
           /\ CreateCompanyReq("createCompanyFoundingYear", t, b)) =>
              /\ ~last'.failed
              /\ last'.ctrl
              /\ last'.status = 500
              /\ companies' = companies ]_vars

\* C30 witness: on an empty store, where no name is taken, the founding-year
\* createCompany reached the controller and was answered 500
C30_Witness ==
    /\ last.route = "createCompanyFoundingYear"
    /\ last.ctrl
    /\ ~last.failed
    /\ last.status = 500
    /\ companies = EmptyStore

\* C22: in every updateCompany variant, an update whose patch breaks a constraint of
\* the Company schema (here a negative yearsTrajectory) is not answered 200 and
\* leaves the companies as they were.
C22_InvalidPatchNotApplied ==
    [][ \A var \in AllUpdateVariants, t \in AdminTokens, id \in DOMAIN companies :
          (/\ last'.route = var.route
           /\ UpdateCompanyReq(var, t, id, "yearsTrajectory" :> -1)) =>
              (last'.status # 200 /\ companies' = companies) ]_vars

C23_SomeVariantRoutesDelete ==
    \E table \in CompanyRouteVariants :
        \A t \in AdminTokens, id \in DOMAIN companies :
            ENABLED (/\ CompanyRouterReq(table, "DELETE", "/:id", t, id, << >>)
                     /\ last'.route = "deleteCompany"
                     /\ last'.ctrl
                     /\ last'.status = 200
                     /\ ~companies'[id].status)

ById(s) == inflight[s].route \in {"getCompanyById", "updateCompany", "updateCompanyIdOnly"}

ControllerRan(s) == inflight[s].pc = "answered" /\ inflight[s].ctx.status = 0

Responders == {"validateJWT", "hasRoles", "esAdmin", "validateUpdateRole", "validarCampos"}

IsPrefix(p, q) == Len(p) <= Len(q) /\ \A i \in 1..Len(p) : p[i] = q[i]

Served == last.route \in Routes

\* C26: createDefaultAdmin starts only once the store is connected; the routes are
\* mounted, the server listens and requests are answered only after it has
\* finished; after a failed connection the process has exited without running
\* createDefaultAdmin and without listening.
C26_BootstrapBetweenConnectAndListen ==
    /\ server.admin # "no" => server.db = "up"
    /\ (server.routes \/ server.listening \/ booted \/ Served) => server.admin = "done"
    /\ server.db = "down" =>
          /\ server.pc = "exited"
          /\ server.admin = "no"
          /\ ~server.routes /\ ~server.listening /\ ~booted /\ ~Served

\* C26 witness: a controller has answered a request of a process that connected,
\* ran createDefaultAdmin to its end, mounted the routes and listens
C26_Witness ==
    /\ server.pc = "listening"
    /\ server.db = "up" /\ server.admin = "done"
    /\ Served /\ last.ctrl

\* the values argon2 produces for the passwords a request can carry
Hashes == {hash(p) : p \in Plaintexts}

\* C21: the password of every stored user is a hash, never a plaintext.
C21_PasswordsStoredHashed ==
    \A i \in DOMAIN users :
        users[i].password \in Hashes /\ users[i].password \notin Plaintexts

\* the matching companies in the order of their names
SortedMatching(q, desc) ==
    LET M == Matching("getCompanies", q)
        n == Cardinality(M)
    IN CHOOSE seq \in [1..n -> M] :
          \A a, b \in 1..n :
             a < b => IF desc
                      THEN NameRank(companies[seq[a]].name) > NameRank(companies[seq[b]].name)
                      ELSE NameRank(companies[seq[a]].name) < NameRank(companies[seq[b]].name)

\* the elements of seq at the positions from .. from + count - 1, counted from 0
Slice(seq, from, count) ==
    LET to == IF from + count < Len(seq) THEN from + count ELSE Len(seq)
    IN [k \in 1..(to - from) |-> seq[from + k]]

\* C25: the page of every getCompanies request of the filtering variant is the
\* elements at positions desde .. desde + limite - 1 (defaults 0 and 10) of the
\* active companies matching minYears, maxYears and category, sorted by name, in
\* descending order when order is "desc".
C25_PageIsSliceOfSortedMatching ==
    [][ \A t \in AdminTokens, q \in Filters, pg \in PagePagings :
          (/\ last'.route = "getCompanies"
           /\ last'.ctrl
           /\ GetCompaniesReq(t, q, pg)) =>
             last'.page = Slice(SortedMatching(q, pg.order = "desc"),
                                IF pg.desde = Absent THEN 0 ELSE pg.desde,
                                IF pg.limite = Absent THEN DefaultLimitCompanies
                                ELSE pg.limite) ]_vars

====
